---- MODULE Spec2Model ----
\* Model of the boxing sub-task-graph builder (hierarchy reduction, the
\* hierarchical builder and its builder chain) and of the actor's kernel loop.
\*
\* Indexing: the C++ code indexes axes from 0; Sequences are indexed from 1.
\* At(h, i) and sbp_parallel(d, i) take the code's 0-based index.
EXTENDS Integers, Sequences, FiniteSets, TLC

VARIABLES
  reduce_op,                 \* which reduction entry point the last reduction call used
  reduce_args,               \* its arguments: <<producer side>> or <<producer, consumer>>
  reduce_ret,                \* what it returned, one record per side
  reduce_ret2,               \* what a second InOutParallelAxesReduce on reduce_ret returned
  nccl_use_compute_stream,   \* Global<ResourceDesc, ForSession>'s flag
  constructed,               \* a HierarchicalSubTskGphBuilder object exists
  sub_tsk_gph_builder_,      \* its chain: the builders_ of the ChainSubTskGphBuilder
  flag_at_construction,      \* history: the flag value the constructor saw
  flag_reads,                \* history: who read the flag, in order
  process,                   \* "running", "aborted" (LOG(FATAL)) or "crashed" (out-of-range read)
  build_log,                 \* <<>> or <<the last Build call: arguments, reduction, chain call, status>>
  actor_inited,              \* Actor::Init has run
  task_proto,                \* the TaskProto Init was called with (<<>> before Init)
  actor_id_,
  ward_func_,                \* "Forward" or "Backward"
  exec_kernel_vec_,          \* the actor's ExecKernel list
  actor_pc,                  \* position inside WardKernel
  ek_idx,                    \* the loop position of WardKernel over exec_kernel_vec_ (1-based)
  pending_bns,               \* slots the running kernel will still ask its BnInOp2Blob for
  trace,                     \* events of the current WardKernel call
  calls_done                 \* number of WardKernel calls that ended (returned or threw)

reduce_vars == <<reduce_op, reduce_args, reduce_ret, reduce_ret2>>
build_vars == <<nccl_use_compute_stream, constructed, sub_tsk_gph_builder_,
                flag_at_construction, flag_reads, process, build_log>>
actor_vars == <<actor_inited, task_proto, actor_id_, ward_func_, exec_kernel_vec_, actor_pc,
                ek_idx, pending_bns, trace, calls_done>>
vars == <<reduce_op, reduce_args, reduce_ret, reduce_ret2,
          nccl_use_compute_stream, constructed, sub_tsk_gph_builder_,
          flag_at_construction, flag_reads, process, build_log,
          actor_inited, task_proto, actor_id_, ward_func_, exec_kernel_vec_, actor_pc,
          ek_idx, pending_bns, trace, calls_done>>

\* ---------------------------------------------------------------- bounds

\* Largest hierarchy rank the reduction harness draws.
MaxAxes == 3
\* Largest hierarchy rank handed to HierarchicalSubTskGphBuilder::Build.
MaxBuildAxes == 2
\* Largest number of exec nodes in a task's exec_sequence.
MaxExecNodes == 2
\* WardKernel calls per actor.
MaxCalls == 2

\* ---------------------------------------------------------------- data

\* SbpParallel values: split along a tensor axis, broadcast, partial sum.
Split(d) == [kind |-> "S", axis |-> d]
Broadcast == [kind |-> "B", axis |-> 0 - 1]
PartialValue == [kind |-> "P", axis |-> 0 - 1]
SbpParallels == {Split(0), Split(1), Broadcast, PartialValue}

\* The hierarchies the reduction harness draws, by rank: the extents are
\* distinct primes, so that a product of extents tells which axes it holds.
ProducerExtents == <<2, 3, 5, 7, 11>>
ConsumerExtents == <<13, 17, 19, 23, 29>>
\* Identities of physical device groups.
DeviceNames == {"d0", "d1"}

RECURSIVE SeqsOfLen(_, _)
SeqsOfLen(S, n) ==
  IF n = 0 THEN {<<>>}
  ELSE {Append(s, x) : s \in SeqsOfLen(S, n - 1), x \in S}

RECURSIVE Product(_)
Product(s) == IF s = <<>> THEN 1 ELSE s[1] * Product(Tail(s))

\* A ParallelDesc: its parallel_conf's device group and its hierarchy.
ParallelDesc(device_name, hierarchy) ==
  [device_name |-> device_name, hierarchy |-> hierarchy]

\* Shape::NumAxes, Shape::At, ParallelDistribution::sbp_parallel(i).
NumAxes(hierarchy) == Len(hierarchy)
At(hierarchy, i) == hierarchy[i + 1]
sbp_parallel(parallel_distribution, i) == parallel_distribution[i + 1]

\* ---------------------------------------------------------------- reduction

\* reduced_hierarchy.back() *= x
BackMulAssign_keep(vec, x) == vec
BackMulAssign(vec, x) == [vec EXCEPT ![Len(vec)] = vec[Len(vec)] * x]

\* The annotation a new group records: sbp_parallel(i).
NewGroupSbp_prev(parallel_distribution, i) == sbp_parallel(parallel_distribution, i - 1)
NewGroupSbp(parallel_distribution, i) == sbp_parallel(parallel_distribution, i)

\* The loop of ParallelAxesReduce from axis i on.
RECURSIVE ParallelAxesReduceLoop(_, _, _, _, _)
ParallelAxesReduceLoop(hierarchy, dist, i, reduced_hierarchy, return_dist) ==
  IF i >= NumAxes(hierarchy)
  THEN [hierarchy |-> reduced_hierarchy, parallel_distribution |-> return_dist]
  ELSE IF sbp_parallel(dist, i) = sbp_parallel(dist, i - 1)
       THEN ParallelAxesReduceLoop(hierarchy, dist, i + 1,
              BackMulAssign(reduced_hierarchy, At(hierarchy, i)), return_dist)
       ELSE ParallelAxesReduceLoop(hierarchy, dist, i + 1,
              Append(reduced_hierarchy, At(hierarchy, i)),
              Append(return_dist, NewGroupSbp(dist, i)))

\* ParallelAxesReduce: the returned ParallelDesc keeps the parallel_conf and
\* takes the reduced hierarchy.
ParallelAxesReduce(parallel_desc, parallel_distribution) ==
  LET r == ParallelAxesReduceLoop(parallel_desc.hierarchy, parallel_distribution, 1,
             <<At(parallel_desc.hierarchy, 0)>>,
             <<sbp_parallel(parallel_distribution, 0)>>)
  IN [parallel_desc |-> ParallelDesc(parallel_desc.device_name, r.hierarchy),
      parallel_distribution |-> r.parallel_distribution]

\* The merge condition of CollaborativeParallelAxesReduce at axis i.
CollaborativeMerge_either(in_dist, out_dist, i) ==
  \/ sbp_parallel(in_dist, i) = sbp_parallel(in_dist, i - 1)
  \/ sbp_parallel(out_dist, i) = sbp_parallel(out_dist, i - 1)
CollaborativeMerge(in_dist, out_dist, i) ==
  /\ sbp_parallel(in_dist, i) = sbp_parallel(in_dist, i - 1)
  /\ sbp_parallel(out_dist, i) = sbp_parallel(out_dist, i - 1)

\* The loop of CollaborativeParallelAxesReduce from axis i on; acc holds the
\* four accumulators.
RECURSIVE CollaborativeLoop(_, _, _, _, _, _)
CollaborativeLoop(in_hierarchy, out_hierarchy, in_dist, out_dist, i, acc) ==
  IF i >= NumAxes(in_hierarchy)
  THEN acc
  ELSE IF CollaborativeMerge(in_dist, out_dist, i)
       THEN CollaborativeLoop(in_hierarchy, out_hierarchy, in_dist, out_dist, i + 1,
              [acc EXCEPT
                 !.in_reduced_hierarchy = BackMulAssign(@, At(in_hierarchy, i)),
                 !.out_reduced_hierarchy = BackMulAssign(@, At(out_hierarchy, i))])
       ELSE CollaborativeLoop(in_hierarchy, out_hierarchy, in_dist, out_dist, i + 1,
              [acc EXCEPT
                 !.in_reduced_hierarchy = Append(@, At(in_hierarchy, i)),
                 !.in_return_dist = Append(@, NewGroupSbp(in_dist, i)),
                 !.out_reduced_hierarchy = Append(@, At(out_hierarchy, i)),
                 !.out_return_dist = Append(@, NewGroupSbp(out_dist, i))])

\* CollaborativeParallelAxesReduce; its CHECK_EQ on the two ranks is the
\* caller's guard (see the actions).
CollaborativeParallelAxesReduce(in_parallel_desc, out_parallel_desc, in_dist, out_dist) ==
  LET acc == CollaborativeLoop(in_parallel_desc.hierarchy, out_parallel_desc.hierarchy,
               in_dist, out_dist, 1,
               [in_reduced_hierarchy |-> <<At(in_parallel_desc.hierarchy, 0)>>,
                in_return_dist |-> <<sbp_parallel(in_dist, 0)>>,
                out_reduced_hierarchy |-> <<At(out_parallel_desc.hierarchy, 0)>>,
                out_return_dist |-> <<sbp_parallel(out_dist, 0)>>])
  IN <<[parallel_desc |-> ParallelDesc(in_parallel_desc.device_name, acc.in_reduced_hierarchy),
        parallel_distribution |-> acc.in_return_dist],
       [parallel_desc |-> ParallelDesc(out_parallel_desc.device_name, acc.out_reduced_hierarchy),
        parallel_distribution |-> acc.out_return_dist]>>

\* The rank-1 branch of InOutParallelAxesReduce: the four arguments are copied.
PassThrough(in_parallel_desc, out_parallel_desc, in_dist, out_dist) ==
  <<[parallel_desc |-> in_parallel_desc, parallel_distribution |-> in_dist],
    [parallel_desc |-> out_parallel_desc, parallel_distribution |-> out_dist]>>

\* InOutParallelAxesReduce: <<reduced producer side, reduced consumer side>>.
InOutParallelAxesReduce(in_parallel_desc, out_parallel_desc, in_dist, out_dist) ==
  LET in_hierarchy_axes == NumAxes(in_parallel_desc.hierarchy)
      out_hierarchy_axes == NumAxes(out_parallel_desc.hierarchy)
  IN IF in_hierarchy_axes = 1 /\ out_hierarchy_axes = 1
     THEN PassThrough(in_parallel_desc, out_parallel_desc, in_dist, out_dist)
     ELSE IF in_hierarchy_axes # out_hierarchy_axes
          THEN <<ParallelAxesReduce(in_parallel_desc, in_dist),
                 ParallelAxesReduce(out_parallel_desc, out_dist)>>
          ELSE CollaborativeParallelAxesReduce(in_parallel_desc, out_parallel_desc,
                                               in_dist, out_dist)

\* ---------------------------------------------------------------- reduction harness

\* Well-formed (ParallelDesc, ParallelDistribution) sides of rank n: one
\* annotation per hierarchy axis. The producer side's device group is fixed;
\* the reduction never reads it.
Sides(n, extents) ==
  {[parallel_desc |-> ParallelDesc("d0", SubSeq(extents, 1, n)), parallel_distribution |-> d] :
     d \in SeqsOfLen(SbpParallels, n)}

ReduceInit ==
  /\ reduce_op = "none"
  /\ reduce_args = <<>>
  /\ reduce_ret = <<>>
  /\ reduce_ret2 = <<>>

DoParallelAxesReduce ==
  /\ reduce_op = "none"
  /\ \E n \in 1..MaxAxes : \E s \in Sides(n, ProducerExtents) :
       /\ reduce_args' = <<s>>
       /\ reduce_ret' = <<ParallelAxesReduce(s.parallel_desc, s.parallel_distribution)>>
  /\ reduce_op' = "ParallelAxesReduce"
  /\ UNCHANGED <<reduce_ret2, build_vars, actor_vars>>

DoCollaborativeParallelAxesReduce ==
  /\ reduce_op = "none"
  /\ \E n \in 1..MaxAxes : \E a \in Sides(n, ProducerExtents), b \in Sides(n, ConsumerExtents) :
       /\ reduce_args' = <<a, b>>
       /\ reduce_ret' = CollaborativeParallelAxesReduce(a.parallel_desc, b.parallel_desc,
                          a.parallel_distribution, b.parallel_distribution)
  /\ reduce_op' = "CollaborativeParallelAxesReduce"
  /\ UNCHANGED <<reduce_ret2, build_vars, actor_vars>>

DoInOutParallelAxesReduce ==
  /\ reduce_op = "none"
  /\ \E n \in 1..MaxAxes, m \in 1..MaxAxes : \E a \in Sides(n, ProducerExtents), b \in Sides(m, ConsumerExtents) :
       /\ reduce_args' = <<a, b>>
       /\ reduce_ret' = InOutParallelAxesReduce(a.parallel_desc, b.parallel_desc,
                          a.parallel_distribution, b.parallel_distribution)
  /\ reduce_op' = "InOutParallelAxesReduce"
  /\ UNCHANGED <<reduce_ret2, build_vars, actor_vars>>

DoInOutParallelAxesReduceAgain ==
  /\ reduce_op = "InOutParallelAxesReduce"
  /\ reduce_ret2' = InOutParallelAxesReduce(
                      reduce_ret[1].parallel_desc, reduce_ret[2].parallel_desc,
                      reduce_ret[1].parallel_distribution, reduce_ret[2].parallel_distribution)
  /\ reduce_op' = "InOutParallelAxesReduceTwice"
  /\ UNCHANGED <<reduce_args, reduce_ret, build_vars, actor_vars>>

\* ---------------------------------------------------------------- builder chain

\* Status values a Build returns: success names the builder that built the
\* sub-graph; the error is Error::BoxingNotSupportedError().
StatusOk(builder_name) == [kind |-> "ok", builder_name |-> builder_name]
BoxingNotSupportedError == [kind |-> "BoxingNotSupportedError", builder_name |-> ""]
NoStatus == [kind |-> "none", builder_name |-> ""]

\* HierarchicalSubTskGphBuilder's constructor: the builders handed to the
\* ChainSubTskGphBuilder, given the value read from nccl_use_compute_stream().
Constructor_flag_inverted(use_compute_stream) ==
  <<"OneToOne", "B21">>
    \o (IF use_compute_stream THEN <<"CollectiveBoxing">> ELSE <<>>)
    \o <<"SliceBoxing", "NaiveB2B", "NaiveB2P">>
Constructor_slice_first(use_compute_stream) ==
  <<"SliceBoxing", "OneToOne", "B21">>
    \o (IF ~use_compute_stream THEN <<"CollectiveBoxing">> ELSE <<>>)
    \o <<"NaiveB2B", "NaiveB2P">>
Constructor_no_b2p(use_compute_stream) ==
  <<"OneToOne", "B21">>
    \o (IF ~use_compute_stream THEN <<"CollectiveBoxing">> ELSE <<>>)
    \o <<"SliceBoxing", "NaiveB2B">>
Constructor(use_compute_stream) ==
  <<"OneToOne", "B21">>
    \o (IF ~use_compute_stream THEN <<"CollectiveBoxing">> ELSE <<>>)
    \o <<"SliceBoxing", "NaiveB2B", "NaiveB2P">>

parallel_num(parallel_desc) == Product(parallel_desc.hierarchy)

\* Whether a variant can accept the rank-1 request args (the decision criteria
\* of the variants; a variant may still decline a request it could accept).
MayApply(builder, args) ==
  LET same_group == /\ args.in_parallel_desc.device_name = args.out_parallel_desc.device_name
                    /\ parallel_num(args.in_parallel_desc) = parallel_num(args.out_parallel_desc)
  IN CASE builder = "OneToOne" ->
            same_group /\ (parallel_num(args.in_parallel_desc) = 1 \/ args.in_sbp = args.out_sbp)
       [] builder = "B21" ->
            \/ args.in_sbp.kind = "B" \/ args.out_sbp.kind = "B"
            \/ parallel_num(args.in_parallel_desc) = 1
            \/ parallel_num(args.out_parallel_desc) = 1
       [] builder = "CollectiveBoxing" ->
            same_group /\ parallel_num(args.in_parallel_desc) > 1 /\ args.in_sbp # args.out_sbp
       [] builder = "SliceBoxing" ->
            args.in_sbp.kind = "S" \/ args.out_sbp.kind = "S"
       [] OTHER -> TRUE

\* Whether a variant can decline: every variant but the last-resort
\* pass-through flavour.
MayDecline(builder, args) == builder # "NaiveB2P"

\* What the chain did when its k-th builder was the first not to decline
\* (k = Len(builders) + 1: every builder declined).
ChainOutcome(builders, k) ==
  [tried |-> [j \in 1..(IF k > Len(builders) THEN Len(builders) ELSE k) |->
                [builder |-> builders[j], declined |-> j < k]],
   status |-> IF k > Len(builders) THEN BoxingNotSupportedError ELSE StatusOk(builders[k])]

\* ChainSubTskGphBuilder::Build: the builders are tried in list order, the
\* first that does not decline gives the status; all declining gives
\* BoxingNotSupportedError.
ChainBuild(builders, args) ==
  {ChainOutcome(builders, k) :
     k \in {k \in 1..(Len(builders) + 1) :
              /\ \A j \in 1..(k - 1) : MayDecline(builders[j], args)
              /\ k <= Len(builders) => MayApply(builders[k], args)}}

\* ---------------------------------------------------------------- hierarchical builder

\* UNIMPLEMENTED(): LOG(FATAL), the process aborts.
UNIMPLEMENTED == "aborted"

\* The placements Build hands to Build1dParallelHierarchySubTskGph.
PlacementsHandedToChain(in_parallel_desc, out_parallel_desc, reduced) ==
  [in_parallel_desc |-> in_parallel_desc, out_parallel_desc |-> out_parallel_desc]

\* Build1dParallelHierarchySubTskGph: the chain's Build on the placements
\* given and axis 0 of the two distributions given; its status is returned.
Build1dParallelHierarchySubTskGph(builders, in_parallel_desc, out_parallel_desc, in_dist, out_dist) ==
  LET args == [in_parallel_desc |-> in_parallel_desc,
               out_parallel_desc |-> out_parallel_desc,
               in_sbp |-> sbp_parallel(in_dist, 0),
               out_sbp |-> sbp_parallel(out_dist, 0)]
  IN {[args |-> args, tried |-> o.tried, status |-> o.status] : o \in ChainBuild(builders, args)}

\* The hierarchies and annotations of the requests handed to Build: n axes of
\* two devices each, and the single device for rank 1.
BuildHierarchies(n) == {[i \in 1..n |-> 2]} \cup (IF n = 1 THEN {<<1>>} ELSE {})
BuildSbpParallels == {Split(0), Broadcast, PartialValue}

\* One side of a Build request: a hierarchy of rank n with an annotation
\* sequence of length n - 1, n or n + 1 (only length n is well-formed).
BuildSides(n, device_names) ==
  {[parallel_desc |-> ParallelDesc(dn, h), parallel_distribution |-> d] :
     dn \in device_names, h \in BuildHierarchies(n),
     d \in UNION {SeqsOfLen(BuildSbpParallels, l) : l \in {n - 1, n, n + 1}}}

WellFormed(side) == Len(side.parallel_distribution) = NumAxes(side.parallel_desc.hierarchy)

\* What sbp_parallel(i) reads from a distribution shorter than the
\* hierarchy: an index past the end is undefined behaviour, so the values
\* read there are any annotations (junk), or the process crashes.
Padded(dist, n, junk) ==
  IF Len(dist) >= n THEN dist ELSE dist \o SubSeq(junk, 1, n - Len(dist))

BuildInit ==
  /\ nccl_use_compute_stream \in BOOLEAN
  /\ constructed = FALSE
  /\ sub_tsk_gph_builder_ = <<>>
  /\ flag_at_construction = FALSE
  /\ flag_reads = <<>>
  /\ process = "running"
  /\ build_log = <<>>

\* The session's resource configuration changes.
SetNcclUseComputeStream ==
  /\ process = "running"
  /\ nccl_use_compute_stream' = ~nccl_use_compute_stream
  /\ UNCHANGED <<constructed, sub_tsk_gph_builder_, flag_at_construction, flag_reads,
                 process, build_log, reduce_vars, actor_vars>>

\* HierarchicalSubTskGphBuilder::HierarchicalSubTskGphBuilder()
Construct ==
  /\ process = "running"
  /\ ~constructed
  /\ constructed' = TRUE
  /\ sub_tsk_gph_builder_' = Constructor(nccl_use_compute_stream)
  /\ flag_at_construction' = nccl_use_compute_stream
  /\ flag_reads' = Append(flag_reads, "constructor")
  /\ UNCHANGED <<nccl_use_compute_stream, process, build_log, reduce_vars, actor_vars>>

\* The record of one Build call.
BuildRecord(req, ub, reduced, chain_calls, status, returned) ==
  [in_parallel_desc |-> req[1].parallel_desc,
   out_parallel_desc |-> req[2].parallel_desc,
   in_parallel_distribution |-> req[1].parallel_distribution,
   out_parallel_distribution |-> req[2].parallel_distribution,
   out_of_range_read |-> ub,
   reduced |-> reduced,
   chain_calls |-> chain_calls,
   status |-> status,
   returned |-> returned]

\* A Build call reads past the end of a distribution that is shorter than
\* its hierarchy.
ReadsOutOfRange(req) ==
  \E s \in 1..2 : Len(req[s].parallel_distribution) < NumAxes(req[s].parallel_desc.hierarchy)

\* HierarchicalSubTskGphBuilder::Build on request req, the out-of-range reads
\* (if any) returning junk.
BuildWith(req, junk) ==
  LET in_dist == Padded(req[1].parallel_distribution,
                        NumAxes(req[1].parallel_desc.hierarchy), junk)
      out_dist == Padded(req[2].parallel_distribution,
                         NumAxes(req[2].parallel_desc.hierarchy), junk)
      reduced == InOutParallelAxesReduce(req[1].parallel_desc, req[2].parallel_desc,
                                         in_dist, out_dist)
      handed == PlacementsHandedToChain(req[1].parallel_desc, req[2].parallel_desc, reduced)
  IN IF /\ NumAxes(reduced[1].parallel_desc.hierarchy) = 1
        /\ NumAxes(reduced[2].parallel_desc.hierarchy) = 1
     THEN \E c \in Build1dParallelHierarchySubTskGph(sub_tsk_gph_builder_,
                     handed.in_parallel_desc, handed.out_parallel_desc,
                     reduced[1].parallel_distribution, reduced[2].parallel_distribution) :
            /\ build_log' = <<BuildRecord(req, ReadsOutOfRange(req), reduced,
                                          <<[args |-> c.args, tried |-> c.tried]>>,
                                          c.status, TRUE)>>
            /\ process' = process
     ELSE /\ build_log' = <<BuildRecord(req, ReadsOutOfRange(req), reduced, <<>>,
                                        NoStatus, FALSE)>>
          /\ process' = UNIMPLEMENTED

\* Build is const and keeps nothing between calls: one call is modelled.
Build ==
  /\ process = "running"
  /\ constructed
  /\ build_log = <<>>
  /\ \E n \in 1..MaxBuildAxes, m \in 1..MaxBuildAxes :
       \E a \in BuildSides(n, {"d0"}), b \in BuildSides(m, DeviceNames) :
         /\ WellFormed(a) \/ WellFormed(b)
         /\ IF ReadsOutOfRange(<<a, b>>)
            THEN \/ \E junk \in SeqsOfLen(BuildSbpParallels, 1) : BuildWith(<<a, b>>, junk)
                 \/ /\ process' = "crashed"
                    /\ build_log' = <<BuildRecord(<<a, b>>, TRUE, <<>>, <<>>, NoStatus, FALSE)>>
            ELSE BuildWith(<<a, b>>, <<>>)
  /\ UNCHANGED <<nccl_use_compute_stream, constructed, sub_tsk_gph_builder_,
                 flag_at_construction, flag_reads, reduce_vars, actor_vars>>

\* ---------------------------------------------------------------- actor

\* Operation names.
OpNames == {"A", "B"}

\* The bn_in_op2regst_desc_id maps of an exec node: two binding every slot a
\* kernel asks for (one reads the register the other writes), one that lacks "out".
BnMaps == {[bn \in {"in", "out"} |-> IF bn = "in" THEN 1 ELSE 2],
           [bn \in {"in", "out"} |-> IF bn = "in" THEN 2 ELSE 3],
           [bn \in {"in"} |-> 1]}

ExecNodeProtos == [op_name : OpNames, bn_in_op2regst_desc_id : BnMaps]

TaskProtos ==
  [id : {7}, is_forward : BOOLEAN,
   exec_sequence : UNION {SeqsOfLen(ExecNodeProtos, n) : n \in 0..MaxExecNodes}]

\* KernelMgr::Singleton().GetKernelFromOpName: the engine-wide kernel of an
\* operation, identified by the operation's name.
GetKernelFromOpName(op_name) == op_name

\* The slots a kernel's Forward/Backward asks its BnInOp2Blob for, in order.
KernelSlots(kernel) == IF kernel = "A" THEN <<"out">> ELSE <<"in", "out">>

\* The loop of Actor::Init: one ExecKernel per exec node, pushed at the back.
ExecKernels_push_front(exec_nodes) ==
  [i \in 1..Len(exec_nodes) |->
     [kernel |-> GetKernelFromOpName(exec_nodes[Len(exec_nodes) + 1 - i].op_name),
      bn_in_op2regst_desc_id |-> exec_nodes[Len(exec_nodes) + 1 - i].bn_in_op2regst_desc_id]]
ExecKernels(exec_nodes) ==
  [i \in 1..Len(exec_nodes) |->
     [kernel |-> GetKernelFromOpName(exec_nodes[i].op_name),
      bn_in_op2regst_desc_id |-> exec_nodes[i].bn_in_op2regst_desc_id]]

\* One event of a WardKernel call.
Event(ev, binding, kernel, func, bn, regst_desc_id) ==
  [ev |-> ev, binding |-> binding, kernel |-> kernel, func |-> func, bn |-> bn,
   regst_desc_id |-> regst_desc_id]

ActorInit ==
  /\ actor_inited = FALSE
  /\ task_proto = <<>>
  /\ actor_id_ = 0
  /\ ward_func_ = "unset"
  /\ exec_kernel_vec_ = <<>>
  /\ actor_pc = "idle"
  /\ ek_idx = 0
  /\ pending_bns = <<>>
  /\ trace = <<>>
  /\ calls_done = 0

\* Actor::Init(task_proto)
Init_(proto) ==
  /\ ~actor_inited
  /\ actor_inited' = TRUE
  /\ task_proto' = proto
  /\ actor_id_' = proto.id
  /\ ward_func_' = IF proto.is_forward THEN "Forward" ELSE "Backward"
  /\ exec_kernel_vec_' = exec_kernel_vec_ \o ExecKernels(proto.exec_sequence)
  /\ UNCHANGED <<actor_pc, ek_idx, pending_bns, trace, calls_done, reduce_vars, build_vars>>

ActorInitCall == \E proto \in TaskProtos : Init_(proto)

\* A caller enters Actor::WardKernel: the range-for starts at the first ExecKernel.
WardKernelCall ==
  /\ actor_inited
  /\ actor_pc = "idle"
  /\ calls_done < MaxCalls
  /\ actor_pc' = "loop"
  /\ ek_idx' = 1
  /\ trace' = <<>>
  /\ pending_bns' = <<>>
  /\ UNCHANGED <<actor_inited, task_proto, actor_id_, ward_func_, exec_kernel_vec_,
                 calls_done, reduce_vars, build_vars>>

\* The loop body starts: (ek.kernel->*ward_func_)(closure) is invoked.
KernelEnter ==
  /\ actor_pc = "loop"
  /\ ek_idx <= Len(exec_kernel_vec_)
  /\ actor_pc' = "in_kernel"
  /\ trace' = Append(trace, Event("enter", ek_idx, exec_kernel_vec_[ek_idx].kernel,
                                  ward_func_, "", 0))
  /\ pending_bns' = KernelSlots(exec_kernel_vec_[ek_idx].kernel)
  /\ UNCHANGED <<actor_inited, task_proto, actor_id_, ward_func_, exec_kernel_vec_,
                 ek_idx, calls_done, reduce_vars, build_vars>>

\* The call ends with an exception that nothing in WardKernel catches.
ThrowToCaller_caught(ev, bn, regst_desc_id) ==
  /\ actor_pc' = "loop"
  /\ trace' = Append(trace, Event(ev, ek_idx, exec_kernel_vec_[ek_idx].kernel,
                                  ward_func_, bn, regst_desc_id))
  /\ pending_bns' = <<>>
  /\ ek_idx' = ek_idx + 1
  /\ UNCHANGED <<actor_inited, task_proto, actor_id_, ward_func_, exec_kernel_vec_,
                 calls_done, reduce_vars, build_vars>>
ThrowToCaller(ev, bn, regst_desc_id) ==
  /\ actor_pc' = "idle"
  /\ trace' = Append(trace, Event(ev, ek_idx, exec_kernel_vec_[ek_idx].kernel,
                                  ward_func_, bn, regst_desc_id))
  /\ pending_bns' = <<>>
  /\ calls_done' = calls_done + 1
  /\ UNCHANGED <<actor_inited, task_proto, actor_id_, ward_func_, exec_kernel_vec_,
                 ek_idx, reduce_vars, build_vars>>

\* The running kernel calls the closure for its next slot: the slot's
\* regst_desc_id is looked up with at() (throws when the slot is unbound),
\* then the caller's resolver runs (returns a register, or throws).
BnInOp2Blob ==
  /\ actor_pc = "in_kernel"
  /\ pending_bns # <<>>
  /\ LET ek == exec_kernel_vec_[ek_idx]
         bn_in_op == Head(pending_bns)
     IN IF bn_in_op \notin DOMAIN ek.bn_in_op2regst_desc_id
        THEN ThrowToCaller("at_throws", bn_in_op, 0)
        ELSE LET regst_desc_id == ek.bn_in_op2regst_desc_id[bn_in_op]
             IN \/ /\ trace' = Append(trace, Event("resolved", ek_idx, ek.kernel, ward_func_,
                                                   bn_in_op, regst_desc_id))
                   /\ pending_bns' = Tail(pending_bns)
                   /\ UNCHANGED <<actor_inited, task_proto, actor_id_, ward_func_,
                                  exec_kernel_vec_, actor_pc, ek_idx, calls_done,
                                  reduce_vars, build_vars>>
                \/ ThrowToCaller("resolver_throws", bn_in_op, regst_desc_id)

\* The running kernel's entry point fails.
KernelThrow ==
  /\ actor_pc = "in_kernel"
  /\ ThrowToCaller("kernel_throws", "", 0)

\* The running kernel's entry point returns; the range-for advances.
KernelReturn ==
  /\ actor_pc = "in_kernel"
  /\ pending_bns = <<>>
  /\ actor_pc' = "loop"
  /\ trace' = Append(trace, Event("return", ek_idx, exec_kernel_vec_[ek_idx].kernel,
                                  ward_func_, "", 0))
  /\ ek_idx' = ek_idx + 1
  /\ UNCHANGED <<actor_inited, task_proto, actor_id_, ward_func_, exec_kernel_vec_,
                 pending_bns, calls_done, reduce_vars, build_vars>>

\* The range-for is over: WardKernel returns to its caller.
WardKernelReturn ==
  /\ actor_pc = "loop"
  /\ ek_idx > Len(exec_kernel_vec_)
  /\ actor_pc' = "idle"
  /\ trace' = Append(trace, Event("completed", 0, "", ward_func_, "", 0))
  /\ calls_done' = calls_done + 1
  /\ UNCHANGED <<actor_inited, task_proto, actor_id_, ward_func_, exec_kernel_vec_,
                 ek_idx, pending_bns, reduce_vars, build_vars>>

\* ---------------------------------------------------------------- specifications

\* The reduction functions on drawn inputs.
InitReduce == ReduceInit /\ BuildInit /\ nccl_use_compute_stream = FALSE /\ ActorInit
NextReduce ==
  \/ DoParallelAxesReduce
  \/ DoCollaborativeParallelAxesReduce
  \/ DoInOutParallelAxesReduce
  \/ DoInOutParallelAxesReduceAgain
SpecReduce == InitReduce /\ [][NextReduce]_vars

\* The hierarchical builder: configuration, construction, Build calls.
Init == ReduceInit /\ BuildInit /\ ActorInit
Next ==
  \/ SetNcclUseComputeStream
  \/ Construct
  \/ Build
Spec == Init /\ [][Next]_vars

\* The actor: Init, then WardKernel calls.
InitActor == ReduceInit /\ BuildInit /\ nccl_use_compute_stream = FALSE /\ ActorInit
NextActor ==
  \/ ActorInitCall
  \/ WardKernelCall
  \/ KernelEnter
  \/ BnInOp2Blob
  \/ KernelThrow
  \/ KernelReturn
  \/ WardKernelReturn
SpecActor == InitActor /\ [][NextActor]_vars

\* ---------------------------------------------------------------- claims: reduction

\* Run lengths: the ways to cut n axes into consecutive non-empty groups.
RECURSIVE Sum(_)
Sum(s) == IF s = <<>> THEN 0 ELSE s[1] + Sum(Tail(s))
RECURSIVE RunLengths(_)
RunLengths(n) ==
  {<<n>>} \cup UNION {{<<a>> \o g : g \in RunLengths(n - a)} : a \in 1..(n - 1)}
GroupFirst(g, k) == 1 + Sum(SubSeq(g, 1, k - 1))
GroupLast(g, k) == Sum(SubSeq(g, 1, k))

\* reduced is orig with each group of run lengths g merged into one axis.
MergedBy(g, orig, reduced) ==
  /\ Len(reduced.parallel_desc.hierarchy) = Len(g)
  /\ Len(reduced.parallel_distribution) = Len(g)
  /\ \A k \in 1..Len(g) :
       /\ reduced.parallel_desc.hierarchy[k] =
            Product(SubSeq(orig.parallel_desc.hierarchy, GroupFirst(g, k), GroupLast(g, k)))
       /\ \A i \in GroupFirst(g, k)..GroupLast(g, k) :
            orig.parallel_distribution[i] = reduced.parallel_distribution[k]

\* C1: ParallelAxesReduce and CollaborativeParallelAxesReduce return, for each
\* side, a hierarchy with the original extent product, whose extents are the
\* products of consecutive groups of original extents, and annotations that
\* repeated once per axis of their group give back the original annotations.
C1_ReductionCorrect ==
  reduce_op \in {"ParallelAxesReduce", "CollaborativeParallelAxesReduce"} =>
    \A s \in 1..Len(reduce_args) :
      /\ Product(reduce_ret[s].parallel_desc.hierarchy)
           = Product(reduce_args[s].parallel_desc.hierarchy)
      /\ \E g \in RunLengths(Len(reduce_args[s].parallel_desc.hierarchy)) :
           MergedBy(g, reduce_args[s], reduce_ret[s])

\* A rank-3 collaborative reduction that merged two axes and kept one apart.
C1_Witness ==
  /\ reduce_op = "CollaborativeParallelAxesReduce"
  /\ Len(reduce_args[1].parallel_desc.hierarchy) = 3
  /\ reduce_ret[1].parallel_desc.hierarchy = <<2, 15>>
  /\ reduce_ret[2].parallel_desc.hierarchy = <<13, 17 * 19>>

\* The axes (1-based) at which a collaborative reduction opens a group: the
\* first, and each axis where either side's annotation differs from the one before.
GroupOpenings(in_dist, out_dist) ==
  {1} \cup {p \in 2..Len(in_dist) :
              ~(in_dist[p] = in_dist[p - 1] /\ out_dist[p] = out_dist[p - 1])}
NthOf(S, k) == CHOOSE x \in S : Cardinality({y \in S : y < x}) = k - 1
LastBefore(S, x, n) ==
  IF \E y \in S : y > x
  THEN (CHOOSE y \in S : y > x /\ \A z \in S : z > x => y <= z) - 1
  ELSE n

\* C2: in collaborative reduction axis i joins the current group iff both the
\* producer's and the consumer's annotation at i equal those at i-1; both
\* reduced sides have the same rank and their groups start at the same axes.
C2_CollaborativeSymmetry ==
  reduce_op = "CollaborativeParallelAxesReduce" =>
    LET n == Len(reduce_args[1].parallel_desc.hierarchy)
        opens == GroupOpenings(reduce_args[1].parallel_distribution,
                               reduce_args[2].parallel_distribution)
    IN \A s \in 1..2 :
         /\ Len(reduce_ret[s].parallel_desc.hierarchy) = Cardinality(opens)
         /\ Len(reduce_ret[s].parallel_distribution) = Cardinality(opens)
         /\ \A k \in 1..Cardinality(opens) :
              LET first == NthOf(opens, k)
              IN /\ reduce_ret[s].parallel_distribution[k]
                      = reduce_args[s].parallel_distribution[first]
                 /\ reduce_ret[s].parallel_desc.hierarchy[k]
                      = Product(SubSeq(reduce_args[s].parallel_desc.hierarchy,
                                       first, LastBefore(opens, first, n)))

\* The producer alone would merge all three axes; the consumer's annotation
\* changes at the last axis, so both sides open a group there.
C2_Witness ==
  /\ reduce_op = "CollaborativeParallelAxesReduce"
  /\ reduce_args[1].parallel_distribution = <<Split(0), Split(0), Split(0)>>
  /\ reduce_args[2].parallel_distribution = <<Split(0), Split(0), Broadcast>>
  /\ reduce_ret[1].parallel_distribution = <<Split(0), Split(0)>>
  /\ reduce_ret[2].parallel_distribution = <<Split(0), Broadcast>>

\* C3: InOutParallelAxesReduce applied to its own output returns that output.
C3_Idempotent ==
  reduce_op = "InOutParallelAxesReduceTwice" => reduce_ret2 = reduce_ret

\* The first pass ran in independent mode (ranks 3 and 2) and returned two
\* rank-2 sides, so the second pass ran in collaborative mode.
C3_Witness ==
  /\ reduce_op = "InOutParallelAxesReduceTwice"
  /\ Len(reduce_args[1].parallel_desc.hierarchy) = 3
  /\ Len(reduce_args[2].parallel_desc.hierarchy) = 2
  /\ Len(reduce_ret[1].parallel_desc.hierarchy) = 2
  /\ Len(reduce_ret[2].parallel_desc.hierarchy) = 2
  /\ reduce_ret2 = reduce_ret

\* ---------------------------------------------------------------- claims: hierarchical builder

\* The Build calls on record whose two sides are well-formed.
WellFormedBuilds ==
  {k \in 1..Len(build_log) :
     /\ Len(build_log[k].in_parallel_distribution) = NumAxes(build_log[k].in_parallel_desc.hierarchy)
     /\ Len(build_log[k].out_parallel_distribution) = NumAxes(build_log[k].out_parallel_desc.hierarchy)}

\* C4: when either reduced hierarchy has rank > 1, Build returns
\* BoxingNotSupportedError to its caller: the process is not aborted, the
\* chain is not invoked.
C4_ReturnsNotSupported ==
  \A k \in WellFormedBuilds :
    (\E s \in 1..2 : NumAxes(build_log[k].reduced[s].parallel_desc.hierarchy) > 1) =>
      /\ process = "running"
      /\ build_log[k].returned
      /\ build_log[k].status = BoxingNotSupportedError
      /\ build_log[k].chain_calls = <<>>

\* C5: when both reduced hierarchies have rank 1, Build calls the chain once,
\* with the reduced placements (rank-1 hierarchies) and axis 0 of the reduced
\* distributions, and returns the chain's status.
C5_ChainGetsReducedPair ==
  \A k \in WellFormedBuilds :
    (\A s \in 1..2 : NumAxes(build_log[k].reduced[s].parallel_desc.hierarchy) = 1) =>
      /\ Len(build_log[k].chain_calls) = 1
      /\ build_log[k].returned
      /\ LET args == build_log[k].chain_calls[1].args
         IN /\ args.in_parallel_desc = build_log[k].reduced[1].parallel_desc
            /\ args.out_parallel_desc = build_log[k].reduced[2].parallel_desc
            /\ NumAxes(args.in_parallel_desc.hierarchy) = 1
            /\ NumAxes(args.out_parallel_desc.hierarchy) = 1
            /\ args.in_sbp = build_log[k].reduced[1].parallel_distribution[1]
            /\ args.out_sbp = build_log[k].reduced[2].parallel_distribution[1]

\* The priority order of the variants.
PriorityOrder == <<"OneToOne", "B21", "CollectiveBoxing", "SliceBoxing", "NaiveB2B", "NaiveB2P">>
Priority(builder) == CHOOSE p \in 1..Len(PriorityOrder) : PriorityOrder[p] = builder
Members(chain) == {chain[j] : j \in 1..Len(chain)}

\* C6: the chain lists the variants in the order One-to-One, Broadcast,
\* Collective-Boxing, Slice-Boxing, Pass-through (both flavours last); the
\* variant whose status a request gets is the first in that order not to
\* decline: every member before it was tried and declined, none after it was tried.
C6_PriorityOrder ==
  /\ constructed =>
       /\ Members(sub_tsk_gph_builder_) \subseteq Members(PriorityOrder)
       /\ Members(PriorityOrder) \ {"CollectiveBoxing"} \subseteq Members(sub_tsk_gph_builder_)
       /\ \A i, j \in 1..Len(sub_tsk_gph_builder_) :
            i < j => Priority(sub_tsk_gph_builder_[i]) < Priority(sub_tsk_gph_builder_[j])
  /\ \A k \in 1..Len(build_log) : \A c \in 1..Len(build_log[k].chain_calls) :
       LET tried == build_log[k].chain_calls[c].tried
       IN /\ Len(tried) <= Len(sub_tsk_gph_builder_)
          /\ \A j \in 1..Len(tried) : tried[j].builder = sub_tsk_gph_builder_[j]
          /\ \A j \in 1..(Len(tried) - 1) : tried[j].declined
          /\ build_log[k].status.kind = "ok" =>
               /\ tried # <<>>
               /\ ~tried[Len(tried)].declined
               /\ build_log[k].status.builder_name = tried[Len(tried)].builder
               /\ \A b \in Members(sub_tsk_gph_builder_) :
                    Priority(b) < Priority(build_log[k].status.builder_name) =>
                      \E j \in 1..(Len(tried) - 1) : tried[j].builder = b /\ tried[j].declined
          /\ build_log[k].status.kind # "ok" =>
               /\ Len(tried) = Len(sub_tsk_gph_builder_)
               /\ \A j \in 1..Len(tried) : tried[j].declined

\* A single-device Broadcast-to-Broadcast request, which the pass-through could
\* also take, is taken by One-to-One, the only variant tried.
C6_Witness ==
  /\ build_log # <<>>
  /\ build_log[1].in_parallel_desc = ParallelDesc("d0", <<1>>)
  /\ build_log[1].out_parallel_desc = ParallelDesc("d0", <<1>>)
  /\ build_log[1].in_parallel_distribution = <<Broadcast>>
  /\ build_log[1].out_parallel_distribution = <<Broadcast>>
  /\ build_log[1].status = StatusOk("OneToOne")
  /\ Len(build_log[1].chain_calls[1].tried) = 1

WithoutCollective(chain) == SelectSeq(chain, LAMBDA b : b # "CollectiveBoxing")

C8_Membership ==
  constructed =>
    /\ ("CollectiveBoxing" \in Members(sub_tsk_gph_builder_)) <=> ~flag_at_construction
    /\ WithoutCollective(sub_tsk_gph_builder_)
         = <<"OneToOne", "B21", "SliceBoxing", "NaiveB2B", "NaiveB2P">>
    /\ "CollectiveBoxing" \in Members(sub_tsk_gph_builder_) =>
         /\ sub_tsk_gph_builder_[2] = "B21"
         /\ sub_tsk_gph_builder_[3] = "CollectiveBoxing"
         /\ sub_tsk_gph_builder_[4] = "SliceBoxing"
    /\ flag_reads = <<"constructor">>

\* C8: Collective-Boxing is in a builder's chain iff nccl_use_compute_stream
\* was false when the builder was constructed, between Broadcast and
\* Slice-Boxing, the other variants in the same order either way; only the
\* constructor reads the flag, and no later step (a flag change, a Build)
\* changes the chain.
C8_FlagReadAtConstruction ==
  /\ []C8_Membership
  /\ [][constructed => /\ sub_tsk_gph_builder_' = sub_tsk_gph_builder_
                       /\ flag_reads' = flag_reads]_vars

\* The flag was changed after construction, a Build ran, and the chain still
\* has the membership the construction-time value gave it.
C8_Witness ==
  /\ constructed
  /\ ~flag_at_construction
  /\ nccl_use_compute_stream
  /\ build_log # <<>>
  /\ build_log[1].status = StatusOk("CollectiveBoxing")

\* C10: a request whose annotation sequence length differs from its hierarchy
\* rank is rejected: no reduced output is computed from it, the chain is not
\* called, and the call ends in an error.
C10_MalformedRejected ==
  \A k \in 1..Len(build_log) :
    k \notin WellFormedBuilds =>
      /\ build_log[k].chain_calls = <<>>
      /\ build_log[k].status.kind # "ok"
      /\ build_log[k].reduced = <<>>

\* ---------------------------------------------------------------- claims: actor

IsKernelCallEvent(e) == e.ev \in {"enter", "return"}

\* The entry-point events a completed WardKernel call on proto's exec nodes
\* shows: for each node in order, its kernel entered, then returned.
ExpectedKernelCalls(proto) ==
  [j \in 1..(2 * Len(proto.exec_sequence)) |->
     Event(IF j % 2 = 1 THEN "enter" ELSE "return", (j + 1) \div 2,
           GetKernelFromOpName(proto.exec_sequence[(j + 1) \div 2].op_name),
           IF proto.is_forward THEN "Forward" ELSE "Backward", "", 0)]

IsPrefix(s, t) == Len(s) <= Len(t) /\ s = SubSeq(t, 1, Len(s))

\* C9: a WardKernel call invokes the entry points of the bindings of
\* n1, ..., nk in that order, each once, the next only after the previous
\* returned; a call that completes has invoked all of them.
C9_ExecutionOrder ==
  (actor_inited /\ trace # <<>>) =>
    LET kernel_calls == SelectSeq(trace, IsKernelCallEvent)
    IN /\ IsPrefix(kernel_calls, ExpectedKernelCalls(task_proto))
       /\ trace[Len(trace)].ev = "completed" =>
            kernel_calls = ExpectedKernelCalls(task_proto)

\* The second call on nodes [A, B], B reading the register A writes, has
\* completed: A was entered and returned before B was entered.
C9_Witness ==
  /\ actor_inited
  /\ calls_done = 2
  /\ Len(task_proto.exec_sequence) = 2
  /\ task_proto.exec_sequence[1].op_name = "A"
  /\ task_proto.exec_sequence[1].bn_in_op2regst_desc_id
       = [bn \in {"in", "out"} |-> IF bn = "in" THEN 1 ELSE 2]
  /\ task_proto.exec_sequence[2].op_name = "B"
  /\ task_proto.exec_sequence[2].bn_in_op2regst_desc_id
       = [bn \in {"in", "out"} |-> IF bn = "in" THEN 2 ELSE 3]
  /\ trace # <<>>
  /\ trace[Len(trace)].ev = "completed"
  /\ trace[1].ev = "enter" /\ trace[1].kernel = "A"

FailureEvents == {"at_throws", "resolver_throws", "kernel_throws"}
ResolverEvents == {"resolved", "resolver_throws"}

\* Within the current call: a failure is the call's last event and has ended
\* the call; no binding after the failing one was entered; the resolver ran
\* at most once for each slot of each binding; the first entry is binding 1.
C11_FailureEndsCall ==
  actor_inited =>
    /\ \A p \in 1..Len(trace) :
         trace[p].ev \in FailureEvents =>
           /\ p = Len(trace)
           /\ actor_pc = "idle"
           /\ \A q \in 1..Len(trace) :
                trace[q].ev = "enter" => q < p /\ trace[q].binding <= trace[p].binding
           /\ \A q \in 1..Len(trace) :
                (trace[q].ev \in ResolverEvents /\ trace[q].binding = trace[p].binding
                   /\ trace[q].bn = trace[p].bn) => q <= p
    /\ \A p, q \in 1..Len(trace) :
         (/\ trace[p].ev \in ResolverEvents /\ trace[q].ev \in ResolverEvents
          /\ trace[p].binding = trace[q].binding /\ trace[p].bn = trace[q].bn) => p = q
    /\ \A p \in 1..Len(trace) :
         (trace[p].ev = "enter" /\ \A q \in 1..(p - 1) : trace[q].ev # "enter") =>
           trace[p].binding = 1

\* One step: the binding list and the dispatch mode stay as Init left them; a
\* failure ends the running call in the step it happens in; a call starts at
\* the first binding.
C11_Step ==
  /\ actor_inited => exec_kernel_vec_' = exec_kernel_vec_ /\ ward_func_' = ward_func_
  /\ (trace' # trace /\ trace' # <<>> /\ trace'[Len(trace')].ev \in FailureEvents) =>
       /\ actor_pc = "in_kernel"
       /\ actor_pc' = "idle"
       /\ calls_done' = calls_done + 1
  /\ (actor_pc = "idle" /\ actor_pc' # "idle") => ek_idx' = 1 /\ trace' = <<>>

\* C11: WardKernel neither catches nor retries: a failure of the slot lookup,
\* of the caller's resolver or of the kernel's entry point while binding i
\* runs ends that call at once, the resolver is not called again for the slot,
\* no later binding is entered in that call, and the binding list and the
\* dispatch mode are unchanged, so the next call starts at the first binding.
C11_NoCatchNoRetry ==
  /\ []C11_FailureEndsCall
  /\ [][C11_Step]_vars

\* Binding 1 (kernel A, its "out" slot unbound) fails in every call: the
\* second call started at binding 1 again and failed there, binding 2 (B) was
\* not entered, list and mode are as Init built them.
C11_Witness ==
  /\ actor_inited
  /\ calls_done = 2
  /\ actor_pc = "idle"
  /\ Len(task_proto.exec_sequence) = 2
  /\ task_proto.exec_sequence[1] = [op_name |-> "A", bn_in_op2regst_desc_id |-> [bn \in {"in"} |-> 1]]
  /\ task_proto.exec_sequence[2].op_name = "B"
  /\ Len(exec_kernel_vec_) = 2
  /\ Len(trace) = 2
  /\ trace[1].ev = "enter" /\ trace[1].binding = 1
  /\ trace[2].ev = "at_throws" /\ trace[2].binding = 1 /\ trace[2].bn = "out"

====
